---- MODULE Spec2Model ----
(***************************************************************************)
(* Model of the $LIVE holder dashboard.                                    *)
(*                                                                         *)
(*   - the poll loop of src/app/page.tsx (Home: fetchData, startFetchCycle,*)
(*     the mount / update-frequency effects, updateAnalytics and the       *)
(*     localStorage persistence),                                          *)
(*   - the holder-count proxy route of src/app/api/holders/route.ts        *)
(*     (getTokenHolders and GET over the module-level cache and flag),     *)
(*   - the chart component that follows it in the same file (HolderChart,  *)
(*     aggregateData, calculateTrendLine).                                 *)
(*                                                                         *)
(* Time is measured in milliseconds.  Holder counts coming from the        *)
(* primary endpoint are carried in halves (holders2 = 2 * holders) so that *)
(* Math.floor is not the identity.                                         *)
(***************************************************************************)
EXTENDS Integers, Sequences, FiniteSets, TLC

VARIABLES
    \* ---- page.tsx: React state of Home
    phase,              \* "fresh" (constructed, effects not yet run), "mounted", "torn"
    updateFrequency,    \* useState(5), seconds
    holderData,         \* useState<DataPoint[]>([])
    analytics,          \* useState<Analytics>
    lastChange,         \* useState<LastChange | null>: <<>> or <<value>>
    currentHolders,     \* useState<number>(0)
    loading,            \* useState<boolean>(true)
    lastUpdated,        \* useState<Date | null>(null): <<>> or <<date>>
    \* ---- page.tsx: refs
    fetchInProgressRef, \* useRef<boolean>(false)
    timeoutRef,         \* useRef<Timeout | null>(null): NoTimer or a timer id
    \* ---- browser
    stored,             \* localStorage['holderData'] (parsed), <<>> when absent
    storedPeak,         \* localStorage['peakHolders']: <<>> when absent, else <<n>>
    documentTitle,      \* document.title: <<>> or <<[holders2, helius]>>
    timers,             \* pending setTimeout callbacks
    fetches,            \* executions of fetchData suspended at an await
    now,                \* the browser's clock, ms
    ev,                 \* history: what the last step did
    \* ---- route.ts: module state and requests in flight
    lastResult,         \* <<>> (null) or <<[age, holders]>>
    fetchInProgress,    \* module-level flag
    reqs,               \* GET executions, by request slot
    pev,                \* history: what the last step of the route did
    \* ---- HolderChart: props and the datasets of the last render
    chartData,          \* the data prop
    chartSettings,      \* the settings prop: [timeRange, showTrendLine]
    chart               \* <<>> before a render, else <<what HolderChart built>>

clientVars == <<phase, updateFrequency, holderData, analytics, lastChange,
                currentHolders, loading, lastUpdated, fetchInProgressRef,
                timeoutRef, stored, storedPeak, documentTitle, timers, fetches,
                now, ev>>
proxyVars == <<lastResult, fetchInProgress, reqs, pev>>
chartVars == <<chartData, chartSettings, chart>>
vars == <<clientVars, proxyVars, chartVars>>

----------------------------------------------------------------------------
\* Bounds of the model

\* the poll intervals the user switches between (two of the five options)
Freqs == {5, 10}
\* granularity of the passage of time in the poll loop, ms
TickMs == 4000
\* a fetch is followed for at most this many ticks (then it has to answer)
MaxElapsedTicks == 3
\* retention cap of the series (slice(-1000) in the source), scaled down
RetentionCap == 2
\* the clock is read for this many ticks; later readings equal the last one
\* (timestamps are only compared with each other, so equal late readings hide
\* no disorder that an early reading does not already show)
MaxClockTicks == 2
\* timer ids and fetch ids that can exist at once
MaxTimers == 3
MaxFetches == 2

\* holders values (in halves) the primary endpoint answers with: 0, 1, 1.5, 2
PrimaryHolders2 == {0, 2, 3, 4}
\* currentSupply values of the fallback; 0 stands for a missing / falsy field
FallbackSupply == {0, 1, 2}
\* how many ticks before the present the primary endpoint's timestamp field
\* lies (the instant its count was taken)
PrimaryLagTicks == {0, 1}

NoTimer == 0
TimerIds == 1..MaxTimers
FetchIds == 1..MaxFetches
DefaultFrequency == 5

----------------------------------------------------------------------------
\* Helpers

Max(a, b) == IF a >= b THEN a ELSE b
Min(a, b) == IF a <= b THEN a ELSE b
Floor2(h2) == h2 \div 2
Last(s) == s[Len(s)]

\* Array.prototype.slice(-n)
SliceLastBug(s, n) == IF Len(s) <= n THEN s ELSE SubSeq(s, 1, n)
SliceLast(s, n) == IF Len(s) <= n THEN s ELSE SubSeq(s, Len(s) - n + 1, Len(s))

\* A Date is its time value in ms, or the Invalid Date.
DateOf(ms) == [valid |-> TRUE, time |-> ms]
InvalidDate == [valid |-> FALSE, time |-> 0]

\* Date.prototype.toISOString, as the seconds and the milliseconds the string
\* spells out, and new Date(isoString)
ToISOString(d) == [secs |-> d.time \div 1000, millis |-> d.time % 1000]
ParseISOString(str) == DateOf(str.secs * 1000 + str.millis)

\* a series is ordered by timestamp ascending
Ordered(series) ==
    \A i \in 1..(Len(series) - 1) : series[i].timestamp.time <= series[i + 1].timestamp.time

\* saveToLocalStorage / loadFromLocalStorage (44-68)
SaveToLocalStorageStale(series) ==
    [i \in 1..(Len(series) - 1) |->
        [timestamp |-> ToISOString(series[i].timestamp), holders |-> series[i].holders]]
SaveToLocalStorage(series) ==
    [i \in 1..Len(series) |->
        [timestamp |-> ToISOString(series[i].timestamp), holders |-> series[i].holders]]
LoadFromLocalStorage(item) ==
    [i \in 1..Len(item) |->
        [timestamp |-> ParseISOString(item[i].timestamp), holders |-> item[i].holders]]

----------------------------------------------------------------------------
\* updateAnalytics (page.tsx 110-162), on a record of the state it touches:
\*   [storedPeak, analytics, lastChange, currentHolders, loading]

ParsePeak(sp) == IF sp = <<>> THEN 0 ELSE sp[1]

AllTimePeakBug(sp, cur) == cur
\* a peak that is never raised once one is stored
AllTimePeakFirst(sp, cur) == IF sp # <<>> THEN sp[1] ELSE cur
AllTimePeak(sp, cur) == IF sp # <<>> THEN Max(sp[1], cur) ELSE cur

\* a count that leaves out the first pair of the series
CountChangesSkipFirst(data, i, acc) ==
    LET pairs == 2..(Len(data) - 1) IN
    [positive |-> Cardinality({k \in pairs : data[k + 1].holders > data[k].holders}),
     negative |-> Cardinality({k \in pairs : data[k + 1].holders < data[k].holders}),
     total    |-> Cardinality({k \in pairs : data[k + 1].holders # data[k].holders})]
RECURSIVE CountChanges(_, _, _)
CountChanges(data, i, acc) ==
    IF i > Len(data) THEN acc
    ELSE LET change == data[i].holders - data[i - 1].holders IN
         CountChanges(data, i + 1,
            [positive |-> acc.positive + (IF change > 0 THEN 1 ELSE 0),
             negative |-> acc.negative + (IF change < 0 THEN 1 ELSE 0),
             total    |-> acc.total + (IF change # 0 THEN 1 ELSE 0)])

\* a scan that stops at the earliest differing sample, not the latest
ScanLastChangeForward(data, i, lastKnownHolders, old) ==
    IF \A k \in 1..Len(data) : data[k].holders = lastKnownHolders THEN old
    ELSE <<lastKnownHolders
            - data[CHOOSE k \in 1..Len(data) :
                     /\ data[k].holders # lastKnownHolders
                     /\ \A j \in 1..(k - 1) : data[j].holders = lastKnownHolders
                  ].holders>>
RECURSIVE ScanLastChange(_, _, _, _)
ScanLastChange(data, i, lastKnownHolders, old) ==
    IF i < 1 THEN old
    ELSE IF data[i].holders # lastKnownHolders
         THEN <<lastKnownHolders - data[i].holders>>
         ELSE ScanLastChange(data, i - 1, lastKnownHolders, old)

UpdateAnalytics(data, newPoint, st) ==
    IF Len(data) = 0 THEN st
    ELSE LET cur == newPoint.holders
             allTimePeak == AllTimePeak(st.storedPeak, cur)
             changes == CountChanges(data, 2, [positive |-> 0, negative |-> 0, total |-> 0])
         IN  [storedPeak |-> IF allTimePeak > ParsePeak(st.storedPeak)
                             THEN <<allTimePeak>> ELSE st.storedPeak,
              analytics |-> [peakHolders |-> allTimePeak,
                             positiveChanges |-> changes.positive,
                             negativeChanges |-> changes.negative,
                             totalChanges |-> changes.total],
              lastChange |-> ScanLastChange(data, Len(data), cur, st.lastChange),
              currentHolders |-> cur,
              loading |-> FALSE]

AnalyticsState == [storedPeak |-> storedPeak, analytics |-> analytics,
                   lastChange |-> lastChange, currentHolders |-> currentHolders,
                   loading |-> loading]

----------------------------------------------------------------------------
\* The refs, timers and suspended fetches, as a record L the callbacks act on:
\*   [inProgress, timeoutRef, timers, fetches, issued]
\* issued counts the network calls the current step has made.

Loop == [inProgress |-> fetchInProgressRef, timeoutRef |-> timeoutRef,
         timers |-> timers, fetches |-> fetches, issued |-> 0]

\* A timer id: the browser never hands out the id of a pending timer.  The id
\* of a timer that has fired or was cleared is used again here: the only place
\* that remembers ids is timeoutRef, which every setTimeout of Home overwrites.
FreeTimerId(L) ==
    LET free == TimerIds \ {t.id : t \in L.timers}
    IN  IF free = {} THEN NoTimer ELSE CHOOSE i \in free : \A j \in free : i <= j

FreeFetchId(L) ==
    LET free == FetchIds \ {f.id : f \in L.fetches}
    IN  IF free = {} THEN 0 ELSE CHOOSE i \in free : \A j \in free : i <= j

\* clearTimeout(id)
ClearTimeoutNoop(L, id) == L
ClearTimeout(L, id) == [L EXCEPT !.timers = {t \in @ : t.id # id}]

\* timeoutRef.current = setTimeout(startFetchCycle, delay), from a callback
\* created with updateFrequency = freq
SetTimeout(L, delay, freq) ==
    LET id == FreeTimerId(L) IN
    IF id = NoTimer THEN L
    ELSE [L EXCEPT !.timers = @ \cup {[id |-> id, remaining |-> delay, freq |-> freq]},
                   !.timeoutRef = id]

\* fetchData up to its first await (219-242): the guard, the flag, the
\* locals (timestamp = new Date() at 232), the primary request
FetchDataNoFlag(L, freq) ==
    IF L.inProgress \/ FreeFetchId(L) = 0 THEN L
    ELSE [L EXCEPT !.fetches = @ \cup {[id |-> FreeFetchId(L), freq |-> freq,
                                         elapsed |-> 0, stage |-> "primary",
                                         usedFallback |-> FALSE, holders2 |-> 0,
                                         timestamp |-> DateOf(now)]},
                   !.issued = @ + 1]
FetchData(L, freq) ==
    IF L.inProgress \/ FreeFetchId(L) = 0 THEN L
    ELSE [L EXCEPT !.inProgress = TRUE,
                   !.fetches = @ \cup {[id |-> FreeFetchId(L), freq |-> freq,
                                         elapsed |-> 0, stage |-> "primary",
                                         usedFallback |-> FALSE, holders2 |-> 0,
                                         timestamp |-> DateOf(now)]},
                   !.issued = @ + 1]

\* startFetchCycle (323-333)
StartFetchCycle(L, freq) ==
    LET L1 == IF L.timeoutRef # NoTimer THEN ClearTimeout(L, L.timeoutRef) ELSE L
    IN  IF ~L1.inProgress THEN FetchData(L1, freq) ELSE L1

\* the cleanup of the initial setup effect (349-353)
EffectCleanup(L) ==
    IF L.timeoutRef # NoTimer THEN ClearTimeout(L, L.timeoutRef) ELSE L

\* nextFetchDelay (306-308) and the delay of the catch path (316)
NextFetchDelayNoClamp(freq, fetchDuration) == (freq * 1000) - fetchDuration
NextFetchDelay(freq, fetchDuration) == Max(0, (freq * 1000) - fetchDuration)
ErrorRetryDelay(freq) == freq * 1000

\* "Schedule next fetch" (311) and the retry of the catch block (316)
ScheduleNext(L, freq, fetchDuration) ==
    SetTimeout(L, NextFetchDelay(freq, fetchDuration), freq)
ScheduleRetryMissing(L, freq) == L
ScheduleRetry(L, freq) ==
    SetTimeout(L, ErrorRetryDelay(freq), freq)

----------------------------------------------------------------------------
\* The history record of a poll-loop step.
\*   starts      startFetchCycle calls the step made
\*   issued      network calls the step issued
\*   busyIssued  network calls issued by startFetchCycle calls that were made
\*               while a fetch was in flight
\*   wasPending  ids of the timers pending before the step
\*   wasBusy     a fetch was in flight before the step
\*   completed   the step ran a fetchData execution to its end
\*   path        "append", "skip" (holders <= 0 or missing), "fail" (the catch
\*               at 313) or "none"
\*   armed       the completed cycle armed a timer
\*   elapsed, freq   Date.now() - startTime of the completed cycle, and the
\*               updateFrequency its fetchData was created with
\*   primaryOk   the primary attempt of the completed cycle succeeded
\*   supply      the currentSupply the fallback answered in that cycle
\*   holders2    the value of `holders` at line 285, in halves
\*   appended    <<>> or <<the newDataPoint of the cycle>>
\*   applied     the updater of setHolderData ran
\*   point       <<>> or <<the newPoint handed to updateAnalytics>>
\*   lenBefore   Len(holderData) before the step
\*   rehydrated  the step loaded the persisted series into holderData
\*   maxAppended the largest holders of the samples appended so far, over
\*               every load of the page (0: none yet)
NoEvent ==
    [op |-> "Init", starts |-> 0, issued |-> 0, busyIssued |-> 0,
     wasPending |-> {}, wasBusy |-> FALSE, completed |-> FALSE,
     path |-> "none", armed |-> FALSE, elapsed |-> 0, freq |-> 0,
     primaryOk |-> FALSE, supply |-> 0, holders2 |-> 0,
     appended |-> <<>>, applied |-> FALSE,
     point |-> <<>>, lenBefore |-> 0, rehydrated |-> FALSE,
     maxAppended |-> 0]

Event(op, L) ==
    [NoEvent EXCEPT !.op = op, !.issued = L.issued,
                    !.wasPending = {t.id : t \in timers},
                    !.wasBusy = (fetches # {}),
                    !.lenBefore = Len(holderData),
                    !.maxAppended = ev.maxAppended]

\* network calls a startFetchCycle call issues although a fetch is in flight
BusyIssued(L, freq) ==
    IF L.fetches # {} THEN StartFetchCycle(L, freq).issued - L.issued ELSE 0

SetLoop(L) ==
    /\ fetchInProgressRef' = L.inProgress
    /\ timeoutRef' = L.timeoutRef
    /\ timers' = L.timers
    /\ fetches' = L.fetches

SetAnalytics(st) ==
    /\ storedPeak' = st.storedPeak
    /\ analytics' = st.analytics
    /\ lastChange' = st.lastChange
    /\ currentHolders' = st.currentHolders
    /\ loading' = st.loading

----------------------------------------------------------------------------
\* The effects of Home

\* the rehydration of the initial setup effect (337-344)
Rehydrate(st) ==
    LET savedData == LoadFromLocalStorage(stored) IN
    IF Len(savedData) > 0
    THEN [data |-> savedData, point |-> <<Last(savedData)>>,
          st |-> UpdateAnalytics(savedData, Last(savedData), st)]
    ELSE [data |-> holderData, point |-> <<>>, st |-> st]

\* the peak effect (100-108)
InitPeak(st) ==
    IF st.storedPeak # <<>>
    THEN [st EXCEPT !.analytics.peakHolders = st.storedPeak[1]]
    ELSE st

\* First render: the peak effect, the initial setup effect, the
\* update-frequency effect, in this order.
Mount ==
    /\ phase = "fresh"
    /\ LET re == Rehydrate(InitPeak(AnalyticsState))
           L1 == StartFetchCycle(Loop, updateFrequency)
           L2 == StartFetchCycle(L1, updateFrequency)
       IN  /\ holderData' = re.data
           /\ SetAnalytics(re.st)
           /\ SetLoop(L2)
           /\ ev' = [Event("Mount", L2) EXCEPT
                        !.starts = 2,
                        !.busyIssued = BusyIssued(Loop, updateFrequency)
                                       + BusyIssued(L1, updateFrequency),
                        !.point = re.point,
                        !.rehydrated = (Len(stored) > 0)]
    /\ phase' = "mounted"
    /\ UNCHANGED <<updateFrequency, lastUpdated, stored, documentTitle, now,
                   proxyVars, chartVars>>

\* handleFrequencyChange (215-217) and the re-render it causes: fetchData and
\* startFetchCycle are created anew, so the initial setup effect is cleaned up
\* and run again, and the update-frequency effect runs.  One step: the
\* effects of a render caused by a discrete event are flushed synchronously.
ChangeFrequency(f) ==
    /\ phase = "mounted"
    /\ f # updateFrequency
    /\ updateFrequency' = f
    /\ LET re == Rehydrate(AnalyticsState)
           L0 == EffectCleanup(Loop)
           L1 == StartFetchCycle(L0, f)
           L2 == StartFetchCycle(L1, f)
       IN  /\ holderData' = re.data
           /\ SetAnalytics(re.st)
           /\ SetLoop(L2)
           /\ ev' = [Event("ChangeFrequency", L2) EXCEPT
                        !.starts = 2,
                        !.busyIssued = BusyIssued(L0, f) + BusyIssued(L1, f),
                        !.point = re.point,
                        !.rehydrated = (Len(stored) > 0)]
    /\ UNCHANGED <<phase, lastUpdated, stored, documentTitle, now,
                   proxyVars, chartVars>>

\* the component is torn down: the cleanup of the initial setup effect
Teardown ==
    /\ phase = "mounted"
    /\ phase' = "torn"
    /\ LET L0 == EffectCleanup(Loop) IN
       /\ SetLoop(L0)
       /\ ev' = Event("Teardown", L0)
    /\ UNCHANGED <<updateFrequency, holderData, analytics, lastChange,
                   currentHolders, loading, lastUpdated, stored, storedPeak,
                   documentTitle, now, proxyVars, chartVars>>

\* the page is loaded again: everything but localStorage starts over
Reload ==
    /\ phase # "fresh"
    /\ phase' = "fresh"
    /\ updateFrequency' = DefaultFrequency
    /\ holderData' = <<>>
    /\ analytics' = [peakHolders |-> 0, positiveChanges |-> 0,
                     negativeChanges |-> 0, totalChanges |-> 0]
    /\ lastChange' = <<>>
    /\ currentHolders' = 0
    /\ loading' = TRUE
    /\ lastUpdated' = <<>>
    /\ fetchInProgressRef' = FALSE
    /\ timeoutRef' = NoTimer
    /\ timers' = {}
    /\ fetches' = {}
    /\ documentTitle' = <<>>
    /\ ev' = [NoEvent EXCEPT !.op = "Reload", !.maxAppended = ev.maxAppended]
    /\ UNCHANGED <<stored, storedPeak, now, proxyVars, chartVars>>

----------------------------------------------------------------------------
\* fetchData after its awaits

\* a pending timer expires: the browser runs startFetchCycle of the render
\* that armed it
TimerFire(t) ==
    /\ t \in timers
    /\ t.remaining = 0
    /\ LET L0 == [Loop EXCEPT !.timers = @ \ {t}]
           L1 == StartFetchCycle(L0, t.freq)
       IN  /\ SetLoop(L1)
           /\ ev' = [Event("TimerFire", L1) EXCEPT
                        !.starts = 1, !.busyIssued = BusyIssued(L0, t.freq)]
    /\ UNCHANGED <<phase, updateFrequency, holderData, analytics, lastChange,
                   currentHolders, loading, lastUpdated, stored, storedPeak,
                   documentTitle, now, proxyVars, chartVars>>

\* the primary attempt succeeds (244-252)
PrimarySucceedsAnyCount(reply) == reply.kind = "json" /\ reply.success
PrimarySucceeds(reply) ==
    reply.kind = "json" /\ reply.success /\ reply.holders2 > 0

\* the value of `holders` when the primary attempt has failed (231, 249-255)
HoldersAfterPrimaryFailureBug(reply) == IF reply.kind = "json" THEN reply.holders2 ELSE 0
HoldersAfterPrimaryFailure(reply) == 0

\* the value of `holders` after the fallback answered (278-282)
HoldersAfterFallback(f, reply) ==
    IF reply.supply > 0 THEN 2 * reply.supply ELSE f.holders2

\* the flag shown in the title (301)
TitleFlag(usedFallback) == usedFallback

\* the test of line 285
HasValidHoldersBug(holders2) == holders2 >= 0
HasValidHolders(holders2) == holders2 > 0

\* lines 285-320 for the execution f: the append (or its skip), the title,
\* the next timer, the finally block.  path is "normal" or "catch".
\* applied: React runs the updater of setHolderData.
Finish(op, f, holders2, path, applied, primaryOk, supply) ==
    LET appends == (path = "normal" /\ HasValidHolders(holders2))
        newDataPoint == [timestamp |-> f.timestamp, holders |-> Floor2(holders2)]
        trimmedData == SliceLast(Append(holderData, newDataPoint), RetentionCap)
        st == UpdateAnalytics(trimmedData, newDataPoint, AnalyticsState)
        L0 == [Loop EXCEPT !.fetches = {g \in @ : g.id # f.id}]
        L1 == IF path = "normal" THEN ScheduleNext(L0, f.freq, f.elapsed)
              ELSE ScheduleRetry(L0, f.freq)
        L2 == [L1 EXCEPT !.inProgress = FALSE]
    IN  /\ IF appends /\ applied
           THEN /\ stored' = SaveToLocalStorage(trimmedData)
                /\ storedPeak' = st.storedPeak
                /\ IF phase = "mounted"
                   THEN /\ holderData' = trimmedData
                        /\ analytics' = st.analytics
                        /\ lastChange' = st.lastChange
                        /\ currentHolders' = st.currentHolders
                        /\ loading' = st.loading
                   ELSE UNCHANGED <<holderData, analytics, lastChange,
                                    currentHolders, loading>>
           ELSE UNCHANGED <<stored, storedPeak, holderData, analytics,
                            lastChange, currentHolders, loading>>
        /\ lastUpdated' = IF appends /\ phase = "mounted"
                          THEN <<f.timestamp>> ELSE lastUpdated
        /\ documentTitle' = IF appends
                            THEN <<[holders2 |-> holders2,
                                    helius |-> TitleFlag(f.usedFallback)]>>
                            ELSE documentTitle
        /\ SetLoop(L2)
        /\ ev' = [Event(op, L2) EXCEPT
                     !.completed = TRUE,
                     !.path = IF path = "catch" THEN "fail"
                              ELSE IF appends THEN "append" ELSE "skip",
                     !.armed = (L1.timers # L0.timers),
                     !.elapsed = f.elapsed, !.freq = f.freq,
                     !.primaryOk = primaryOk, !.supply = supply,
                     !.holders2 = holders2,
                     !.appended = IF appends THEN <<newDataPoint>> ELSE <<>>,
                     !.applied = (appends /\ applied),
                     !.point = IF appends /\ applied THEN <<newDataPoint>> ELSE <<>>,
                     !.maxAppended = IF appends /\ applied
                                     THEN Max(@, newDataPoint.holders) ELSE @]
        /\ UNCHANGED <<phase, updateFrequency, now, proxyVars, chartVars>>

\* whether React runs the updater passed to setHolderData: it does for a
\* mounted component; for one torn down either outcome is possible
Applied == IF phase = "mounted" THEN {TRUE} ELSE BOOLEAN

\* the outcomes of the primary request: fetch rejects ("neterr"), the status
\* is not 2xx ("status"), response.json() rejects because the body is not
\* JSON ("body"), or a payload {success, holders, timestamp} arrives ("json")
PrimaryReplies ==
    {[kind |-> k, success |-> FALSE, holders2 |-> 0, lag |-> 0] :
        k \in {"neterr", "status", "body"}}
    \cup {[kind |-> "json", success |-> s, holders2 |-> h, lag |-> l] :
            s \in BOOLEAN, h \in PrimaryHolders2, l \in PrimaryLagTicks}

\* new Date(data.timestamp) (251): the instant the primary endpoint reports
PrimaryTimestamp(reply) == DateOf(Max(0, now - reply.lag * TickMs))

FallbackReplies ==
    {[kind |-> k, supply |-> 0] : k \in {"neterr", "status"}}
    \cup {[kind |-> "json", supply |-> n] : n \in FallbackSupply}

\* the primary request returns (237-259, 264)
PrimaryResponse(f, reply) ==
    /\ f \in fetches
    /\ f.stage = "primary"
    /\ IF PrimarySucceeds(reply)
       THEN \E applied \in Applied :
                Finish("PrimaryResponse",
                       [f EXCEPT !.holders2 = reply.holders2,
                                 !.timestamp = PrimaryTimestamp(reply)],
                       reply.holders2, "normal", applied, TRUE, 0)
       ELSE /\ fetches' = (fetches \ {f}) \cup
                    {[f EXCEPT !.stage = "fallback", !.usedFallback = TRUE,
                               !.holders2 = HoldersAfterPrimaryFailure(reply)]}
            /\ ev' = [Event("PrimaryResponse", Loop) EXCEPT !.issued = 1]
            /\ UNCHANGED <<phase, updateFrequency, holderData, analytics,
                           lastChange, currentHolders, loading, lastUpdated,
                           fetchInProgressRef, timeoutRef, stored, storedPeak,
                           documentTitle, timers, now, proxyVars, chartVars>>

\* the fallback request returns (264-283)
FallbackResponse(f, reply) ==
    /\ f \in fetches
    /\ f.stage = "fallback"
    /\ \E applied \in Applied :
        IF reply.kind = "json"
        THEN Finish("FallbackResponse", f, HoldersAfterFallback(f, reply),
                    "normal", applied, FALSE, reply.supply)
        ELSE Finish("FallbackResponse", f, f.holders2,
                    "catch", applied, FALSE, 0)

\* time passes: d ms; a fetch is followed for MaxElapsedTicks ticks
Tick(d) ==
    /\ \A f \in fetches : f.elapsed < MaxElapsedTicks * d
    /\ fetches # {} \/ \E t \in timers : t.remaining > 0
    /\ fetches' = {[f EXCEPT !.elapsed = @ + d] : f \in fetches}
    /\ timers' = {[t EXCEPT !.remaining = Max(0, @ - d)] : t \in timers}
    /\ now' = Min(now + d, MaxClockTicks * d)
    /\ ev' = Event("Tick", Loop)
    /\ UNCHANGED <<phase, updateFrequency, holderData, analytics, lastChange,
                   currentHolders, loading, lastUpdated, fetchInProgressRef,
                   timeoutRef, stored, storedPeak, documentTitle, proxyVars,
                   chartVars>>

----------------------------------------------------------------------------
\* The holder-count proxy route (route.ts 10-109)

CACHE_DURATION == 10000
RATE_LIMIT_DELAY == 2000
\* the wait for an in-flight scan (24)
IN_PROGRESS_WAIT == 100

\* concurrent GET executions, the scans one request is followed for, and the
\* holder counts a scan returns
MaxRequests == 2
MaxScans == 3
ScanCounts == {1, 2}
ReqIds == 1..MaxRequests

IdleReq == [pc |-> "idle", remaining |-> 0, scans |-> 0, status |-> 0, holders |-> 0]

\* the answers of GET (98, 102, 104-107)
Answer(req, status, holders) ==
    [req EXCEPT !.pc = "done", !.remaining = 0, !.status = status, !.holders = holders]

\* the cache test of line 18; the age is Date.now() - lastResult.timestamp
CacheValidForever(lr) == lr # <<>>
CacheValid(lr) == lr # <<>> /\ lr[1].age < CACHE_DURATION

\* getTokenHolders up to its first await (16-40): "cached", "wait" or "scan"
EnterGetTokenHolders(lr, inProgress) ==
    IF CacheValid(lr) THEN "cached"
    ELSE IF inProgress THEN "wait"
    ELSE "scan"

\* the catch of GET (99-108)
AnswerErrorAlways500(req, lr) == Answer(req, 500, 0)
AnswerError(req, lr) ==
    IF lr # <<>> THEN Answer(req, 200, lr[1].holders) ELSE Answer(req, 500, 0)

\* The history record of a step of the route.
\*   r          the request that took the step (0: none)
\*   cache      lastResult before the step
\*   busy       fetchInProgress before the step
\*   count      the count a successful scan produced
\*   failed     an upstream scan has failed, in this step or before
NoProxyEvent ==
    [op |-> "Init", r |-> 0, cache |-> <<>>, busy |-> FALSE, count |-> 0,
     failed |-> FALSE]
ProxyEvent(op, r) ==
    [NoProxyEvent EXCEPT !.op = op, !.r = r, !.cache = lastResult,
                         !.busy = fetchInProgress, !.failed = pev.failed]

\* a GET arrives and runs to its first await
Arrive(r) ==
    /\ reqs[r].pc \in {"idle", "done"}
    /\ LET way == EnterGetTokenHolders(lastResult, fetchInProgress) IN
       /\ reqs' = [reqs EXCEPT ![r] =
            CASE way = "cached" -> Answer(IdleReq, 200, lastResult[1].holders)
              [] way = "wait"   -> [IdleReq EXCEPT !.pc = "wait", !.remaining = IN_PROGRESS_WAIT]
              [] OTHER          -> [IdleReq EXCEPT !.pc = "scan", !.scans = 1]]
       /\ fetchInProgress' = (fetchInProgress \/ way = "scan")
    /\ pev' = ProxyEvent("Arrive", r)
    /\ UNCHANGED <<lastResult, clientVars, chartVars>>

\* the 100 ms wait is over (24-31)
WaitOver(r) ==
    /\ reqs[r].pc = "wait"
    /\ reqs[r].remaining = 0
    /\ IF lastResult # <<>>
       THEN /\ reqs' = [reqs EXCEPT ![r] = Answer(@, 200, lastResult[1].holders)]
            /\ UNCHANGED fetchInProgress
       ELSE /\ reqs' = [reqs EXCEPT ![r].pc = "scan", ![r].scans = @ + 1]
            /\ fetchInProgress' = TRUE
    /\ pev' = ProxyEvent("WaitOver", r)
    /\ UNCHANGED <<lastResult, clientVars, chartVars>>

\* getProgramAccounts returns the accounts, counted (40-79, 90-92)
ScanSucceeds(r, count) ==
    /\ reqs[r].pc = "scan"
    /\ lastResult' = <<[age |-> 0, holders |-> count]>>
    /\ fetchInProgress' = FALSE
    /\ reqs' = [reqs EXCEPT ![r] = Answer(@, 200, count)]
    /\ pev' = [ProxyEvent("ScanSucceeds", r) EXCEPT !.count = count]
    /\ UNCHANGED <<clientVars, chartVars>>

\* getProgramAccounts throws; rateLimited: the message includes '429' (80-92)
ScanFails(r, rateLimited) ==
    /\ reqs[r].pc = "scan"
    /\ IF rateLimited /\ lastResult = <<>>
       THEN /\ reqs' = [reqs EXCEPT ![r].pc = "retry", ![r].remaining = RATE_LIMIT_DELAY]
            /\ UNCHANGED fetchInProgress
       ELSE /\ reqs' = [reqs EXCEPT ![r] = AnswerError(@, lastResult)]
            /\ fetchInProgress' = FALSE
    /\ pev' = [ProxyEvent("ScanFails", r) EXCEPT !.failed = TRUE]
    /\ UNCHANGED <<lastResult, clientVars, chartVars>>

\* the 2 s delay is over: the recursive call runs to its first await, then the
\* finally block of the outer call clears the flag (86-92)
RetryDue(r) ==
    /\ reqs[r].pc = "retry"
    /\ reqs[r].remaining = 0
    /\ reqs[r].scans < MaxScans
    /\ LET way == EnterGetTokenHolders(lastResult, fetchInProgress) IN
       reqs' = [reqs EXCEPT ![r] =
            CASE way = "cached" -> Answer(@, 200, lastResult[1].holders)
              [] way = "wait"   -> [@ EXCEPT !.pc = "wait", !.remaining = IN_PROGRESS_WAIT]
              [] OTHER          -> [@ EXCEPT !.pc = "scan", !.scans = @ + 1]]
    /\ fetchInProgress' = FALSE
    /\ pev' = ProxyEvent("RetryDue", r)
    /\ UNCHANGED <<lastResult, clientVars, chartVars>>

\* time passes, up to the next moment one of the waits or the cache ends
ProxyDeadlines ==
    {reqs[r].remaining : r \in {q \in ReqIds : reqs[q].remaining > 0}}
    \cup (IF CacheValid(lastResult) THEN {CACHE_DURATION - lastResult[1].age} ELSE {})

ProxyTick(d) ==
    /\ d \in ProxyDeadlines
    /\ reqs' = [r \in ReqIds |-> [reqs[r] EXCEPT !.remaining = Max(0, @ - d)]]
    /\ lastResult' = IF lastResult = <<>> THEN <<>>
                     ELSE <<[lastResult[1] EXCEPT !.age = Min(CACHE_DURATION, @ + d)]>>
    /\ pev' = ProxyEvent("ProxyTick", 0)
    /\ UNCHANGED <<fetchInProgress, clientVars, chartVars>>

ProxyInit ==
    /\ lastResult = <<>>
    /\ fetchInProgress = FALSE
    /\ reqs = [r \in ReqIds |-> IdleReq]
    /\ pev = NoProxyEvent

ProxyNext ==
    \/ \E r \in ReqIds : Arrive(r)
    \/ \E r \in ReqIds : WaitOver(r)
    \/ \E r \in ReqIds, count \in ScanCounts : ScanSucceeds(r, count)
    \/ \E r \in ReqIds, rateLimited \in BOOLEAN : ScanFails(r, rateLimited)
    \/ \E r \in ReqIds : RetryDue(r)
    \/ \E d \in ProxyDeadlines : ProxyTick(d)

----------------------------------------------------------------------------
\* JavaScript numbers, as far as the chart code needs them: NaN, +-Infinity
\* (den = 0) and the rationals in lowest terms (exact arithmetic: the rounding
\* of doubles is left out).

RECURSIVE GCD(_, _)
GCD(a, b) == IF b = 0 THEN a ELSE GCD(b, a % b)
Abs(n) == IF n < 0 THEN -n ELSE n
Sign(n) == IF n > 0 THEN 1 ELSE IF n < 0 THEN -1 ELSE 0

NaN == [nan |-> TRUE, num |-> 0, den |-> 1]
Make(num, den) ==
    IF den = 0
    THEN IF num = 0 THEN NaN ELSE [nan |-> FALSE, num |-> Sign(num), den |-> 0]
    ELSE LET g == GCD(Abs(num), Abs(den)) IN
         [nan |-> FALSE, num |-> (Sign(den) * num) \div g, den |-> Abs(den) \div g]
Num(n) == Make(n, 1)

IsFinite(x) == ~x.nan /\ x.den # 0
Mul(x, y) == IF x.nan \/ y.nan THEN NaN ELSE Make(x.num * y.num, x.den * y.den)
Div(x, y) == IF x.nan \/ y.nan THEN NaN ELSE Make(x.num * y.den, x.den * y.num)
Add(x, y) ==
    IF x.nan \/ y.nan THEN NaN
    ELSE IF x.den = 0 /\ y.den = 0
         THEN (IF x.num = y.num THEN x ELSE NaN)
    ELSE IF x.den = 0 THEN x
    ELSE IF y.den = 0 THEN y
    ELSE Make(x.num * y.den + y.num * x.den, x.den * y.den)
Neg(x) == IF x.nan THEN NaN ELSE [x EXCEPT !.num = -x.num]
Sub(x, y) == Add(x, Neg(y))
\* x <= y: false when either side is NaN
Lte(x, y) ==
    /\ ~x.nan /\ ~y.nan
    /\ IF x.den = 0 /\ y.den = 0 THEN x.num <= y.num
       ELSE IF x.den = 0 THEN x.num < 0
       ELSE IF y.den = 0 THEN y.num > 0
       ELSE x.num * y.den <= y.num * x.den
MathFloor(x) == IF IsFinite(x) THEN Num(x.num \div x.den) ELSE x
MathCeil(x) == Neg(MathFloor(Neg(x)))
\* Math.round: the nearest integer, halves towards +Infinity
MathRound(x) == IF IsFinite(x) THEN MathFloor(Add(x, Make(1, 2))) ELSE x

\* Date.prototype.getTime and new Date(number)
GetTime(d) == IF d.valid THEN Num(d.time) ELSE NaN
NewDate(x) == IF IsFinite(x) /\ x.den = 1 THEN DateOf(x.num) ELSE InvalidDate

----------------------------------------------------------------------------
\* aggregateData (route.ts 234-289).  A string is the sequence of its
\* characters.

Digits == <<"0", "1", "2", "3", "4", "5", "6", "7", "8", "9">>
IsDigit(c) == \E i \in 1..Len(Digits) : Digits[i] = c
DigitValue(c) == (CHOOSE i \in 1..Len(Digits) : Digits[i] = c) - 1

\* parseInt: the number its leading digits spell, NaN when there is none
RECURSIVE ParseDigits(_, _, _)
ParseDigits(str, i, acc) ==
    IF i > Len(str) \/ ~IsDigit(str[i]) THEN acc
    ELSE ParseDigits(str, i + 1, 10 * acc + DigitValue(str[i]))
ParseInt(str) ==
    IF Len(str) = 0 \/ ~IsDigit(str[1]) THEN NaN ELSE Num(ParseDigits(str, 1, 0))

\* interval.slice(-1)
LastChar(str) == IF Len(str) = 0 THEN "" ELSE str[Len(str)]

\* the switch of 241-253: <<intervalMs>>, or <<>> for the default branch
IntervalMs(interval) ==
    LET timeValue == ParseInt(interval)
        unit == LastChar(interval)
    IN  CASE unit = "m" -> <<Mul(timeValue, Num(60 * 1000))>>
          [] unit = "h" -> <<Mul(timeValue, Num(60 * 60 * 1000))>>
          [] unit = "d" -> <<Mul(timeValue, Num(24 * 60 * 60 * 1000))>>
          [] OTHER      -> <<>>

\* Math.floor(t / intervalMs) * intervalMs and its Math.ceil twin (256-257, 268)
FloorTo(t, intervalMs) == Mul(MathFloor(Div(t, intervalMs)), intervalMs)
CeilTo(t, intervalMs) == Mul(MathCeil(Div(t, intervalMs)), intervalMs)

\* the Map of 260-263, in insertion order: a sequence of [key, holders]
EmptyGroupsNone(time, endTime, intervalMs, groups) == groups
RECURSIVE EmptyGroups(_, _, _, _)
EmptyGroups(time, endTime, intervalMs, groups) ==
    IF ~Lte(time, endTime) THEN groups
    ELSE EmptyGroups(Add(time, intervalMs), endTime, intervalMs,
                     Append(groups, [key |-> time, holders |-> <<>>]))

\* groups.get(key) || [], push, groups.set (266-272)
GroupsPush(groups, key, h) ==
    IF \E i \in 1..Len(groups) : groups[i].key = key
    THEN [i \in 1..Len(groups) |->
            IF groups[i].key = key
            THEN [groups[i] EXCEPT !.holders = Append(@, h)] ELSE groups[i]]
    ELSE Append(groups, [key |-> key, holders |-> <<h>>])

RECURSIVE AssignPoints(_, _, _, _)
AssignPoints(series, i, intervalMs, groups) ==
    IF i > Len(series) THEN groups
    ELSE AssignPoints(series, i + 1, intervalMs,
            GroupsPush(groups, FloorTo(GetTime(series[i].timestamp), intervalMs),
                       series[i].holders))

RECURSIVE SumSeq(_)
SumSeq(q) == IF Len(q) = 0 THEN 0 ELSE q[1] + SumSeq(Tail(q))

\* the value of a bucket that has samples (279)
BucketValueTruncated(holders) == SumSeq(holders) \div Len(holders)
\* a bucket valued with the sum of its samples
BucketValueSum(holders) == SumSeq(holders)
BucketValue(holders) == MathRound(Div(Num(SumSeq(holders)), Num(Len(holders)))).num

\* the map of 276-285 over the entries in insertion order
ResolveSeedOnly(groups, i, lastKnownValue, result) ==
    [k \in 1..Len(groups) |->
        [timestamp |-> NewDate(groups[k].key),
         holders |-> IF Len(groups[k].holders) > 0
                     THEN BucketValue(groups[k].holders) ELSE lastKnownValue]]
RECURSIVE Resolve(_, _, _, _)
Resolve(groups, i, lastKnownValue, result) ==
    IF i > Len(groups) THEN result
    ELSE LET value == IF Len(groups[i].holders) > 0
                      THEN BucketValue(groups[i].holders) ELSE lastKnownValue
         IN  Resolve(groups, i + 1, value,
                     Append(result, [timestamp |-> NewDate(groups[i].key),
                                     holders |-> value]))

\* the comparator of 286; a NaN difference counts as equal
TimeLess(a, b) ==
    LET diff == Sub(GetTime(a.timestamp), GetTime(b.timestamp))
    IN  ~diff.nan /\ diff.num < 0

\* Array.prototype.sort (stable)
RECURSIVE InsertSorted(_, _)
InsertSorted(sorted, x) ==
    IF Len(sorted) = 0 THEN <<x>>
    ELSE IF TimeLess(x, Last(sorted))
         THEN Append(InsertSorted(SubSeq(sorted, 1, Len(sorted) - 1), x), Last(sorted))
         ELSE Append(sorted, x)
RECURSIVE SortByTimeFrom(_, _, _)
SortByTimeFrom(series, i, sorted) ==
    IF i > Len(series) THEN sorted
    ELSE SortByTimeFrom(series, i + 1, InsertSorted(sorted, series[i]))
SortByTime(series) == SortByTimeFrom(series, 1, <<>>)

AggregateDataSorted(series, interval) == SortByTime(series)
\* lines 256-286 for the interval length intervalMs
AggregateInto(series, intervalMs) ==
    SortByTime(
        Resolve(AssignPoints(series, 1, intervalMs,
                    EmptyGroups(FloorTo(GetTime(series[1].timestamp), intervalMs),
                                CeilTo(GetTime(Last(series).timestamp), intervalMs),
                                intervalMs, <<>>)),
                1, series[1].holders, <<>>))

\* the default branch of the switch returns data (252)
AggregateBy(series, ms) ==
    IF ms = <<>> THEN series ELSE AggregateInto(series, ms[1])

AggregateData(series, interval) ==
    IF interval = <<"a", "l", "l">> \/ interval = <<"r", "a", "w">> \/ Len(series) = 0
    THEN series
    ELSE AggregateBy(series, IntervalMs(interval))

----------------------------------------------------------------------------
\* calculateSMA (route.ts 164-175) and calculateEMA (177-190) over the holder
\* counts of the plotted series

CalculateSMAShort(values, period) ==
    [i \in 1..Len(values) |->
        Div(Num(SumSeq(SubSeq(values, Max(1, i - period + 1), i))), Num(period))]
CalculateSMA(values, period) ==
    [i \in 1..Len(values) |->
        IF i - 1 < period - 1 THEN NaN
        ELSE Div(Num(SumSeq(SubSeq(values, i - period + 1, i))), Num(period))]

RECURSIVE CalculateEMAFrom(_, _, _, _)
CalculateEMAFrom(values, i, multiplier, ema) ==
    IF i > Len(values) THEN ema
    ELSE IF i = 1 THEN CalculateEMAFrom(values, 2, multiplier, <<Num(values[1])>>)
    ELSE LET currentEMA == Add(Mul(Sub(Num(values[i]), ema[i - 1]), multiplier),
                               ema[i - 1])
         IN  CalculateEMAFrom(values, i + 1, multiplier, Append(ema, currentEMA))
CalculateEMA(values, period) ==
    CalculateEMAFrom(values, 1, Div(Num(2), Num(period + 1)), <<>>)

\* String.prototype.toUpperCase on the values of maType
ToUpperCase(maType) ==
    CASE maType = "sma" -> "SMA"
      [] maType = "ema" -> "EMA"
      [] OTHER          -> "NONE"

----------------------------------------------------------------------------
\* calculateTrendLine (route.ts 192-209) and HolderChart (291-381)

\* the reduce calls of 197-200: the sums of x, y, x * y and x * x over the
\* index x = 0..n-1
RECURSIVE SumIndexed(_, _, _)
SumIndexed(series, i, kind) ==
    IF i > Len(series) THEN 0
    ELSE (CASE kind = "x"  -> (i - 1)
            [] kind = "y"  -> series[i].holders
            [] kind = "xy" -> (i - 1) * series[i].holders
            [] OTHER       -> (i - 1) * (i - 1))
         + SumIndexed(series, i + 1, kind)

\* a regression against the timestamps (in units of 30 s), not the index
TimeUnits(point) == point.timestamp.time \div 30000
RECURSIVE SumTimed(_, _, _)
SumTimed(series, i, kind) ==
    IF i > Len(series) THEN 0
    ELSE (CASE kind = "x"  -> TimeUnits(series[i])
            [] kind = "y"  -> series[i].holders
            [] kind = "xy" -> TimeUnits(series[i]) * series[i].holders
            [] OTHER       -> TimeUnits(series[i]) * TimeUnits(series[i]))
         + SumTimed(series, i + 1, kind)
CalculateTrendLineOverTime(series) ==
    LET n == Len(series)
        sumX == SumTimed(series, 1, "x")
        sumY == SumTimed(series, 1, "y")
        sumXY == SumTimed(series, 1, "xy")
        sumXX == SumTimed(series, 1, "xx")
        slope == Div(Num(n * sumXY - sumX * sumY), Num(n * sumXX - sumX * sumX))
        intercept == Div(Sub(Num(sumY), Mul(slope, Num(sumX))), Num(n))
    IN  IF n = 0 THEN [start |-> NaN, end |-> NaN]
        ELSE [start |-> Add(Mul(slope, Num(TimeUnits(series[1]))), intercept),
              end |-> Add(Mul(slope, Num(TimeUnits(Last(series)))), intercept)]

CalculateTrendLine(series) ==
    LET n == Len(series)
        sumX == SumIndexed(series, 1, "x")
        sumY == SumIndexed(series, 1, "y")
        sumXY == SumIndexed(series, 1, "xy")
        sumXX == SumIndexed(series, 1, "xx")
        slope == Div(Num(n * sumXY - sumX * sumY), Num(n * sumXX - sumX * sumX))
        intercept == Div(Sub(Num(sumY), Mul(slope, Num(sumX))), Num(n))
    IN  [start |-> intercept, end |-> Add(Mul(slope, Num(n - 1)), intercept)]

\* the guard of 365: an object is truthy whatever its fields hold
AddsTrendLine(showTrendLine, trendLine, filteredData) ==
    showTrendLine /\ trendLine # <<>>

\* aggregatedData and filteredData (297-304)
FilteredData(series, props) ==
    IF props.timeRange = <<"a", "l", "l">> THEN series
    ELSE AggregateData(series, props.timeRange)

\* filteredData.map(d => d.holders)
HoldersOf(filteredData) ==
    [i \in 1..Len(filteredData) |-> filteredData[i].holders]

\* maData (309-313)
MaData(values, props) ==
    IF props.showMovingAverage
    THEN (IF props.maType = "sma"
          THEN CalculateSMA(values, props.maPeriod)
          ELSE CalculateEMA(values, props.maPeriod))
    ELSE <<>>

\* trendLine (316): <<>> stands for null
TrendLine(filteredData, props) ==
    IF props.showTrendLine THEN <<CalculateTrendLine(filteredData)>> ELSE <<>>

\* the datasets after the push of 346-362
Plotted(filteredData, maData, props) ==
    IF props.showMovingAverage
    THEN <<[label |-> "Token Holders",
            points |-> [i \in 1..Len(filteredData) |->
                          [x |-> filteredData[i].timestamp,
                           y |-> Num(filteredData[i].holders)]]],
           [label |-> ToUpperCase(props.maType),
            period |-> props.maPeriod,
            points |-> [i \in 1..Len(maData) |->
                          [x |-> filteredData[i].timestamp, y |-> maData[i]]]]>>
    ELSE <<[label |-> "Token Holders",
            points |-> [i \in 1..Len(filteredData) |->
                          [x |-> filteredData[i].timestamp,
                           y |-> Num(filteredData[i].holders)]]]>>

\* the datasets handed to <Line> (325-381), and whether the render threw (a
\* read of filteredData[0].timestamp on an empty series at 369)
Datasets(filteredData, plotted, trendLine, props) ==
    IF ~AddsTrendLine(props.showTrendLine, trendLine, filteredData)
    THEN [threw |-> FALSE, filteredData |-> filteredData, datasets |-> plotted]
    ELSE IF Len(filteredData) = 0
    THEN [threw |-> TRUE, filteredData |-> filteredData, datasets |-> <<>>]
    ELSE [threw |-> FALSE, filteredData |-> filteredData,
          datasets |-> Append(plotted,
              [label |-> "Trend Line",
               points |-> <<[x |-> filteredData[1].timestamp,
                             y |-> trendLine[1].start],
                            [x |-> Last(filteredData).timestamp,
                             y |-> trendLine[1].end]>>])]

\* the render over the series it plots
Chart(filteredData, props) ==
    Datasets(filteredData,
             Plotted(filteredData, MaData(HoldersOf(filteredData), props), props),
             TrendLine(filteredData, props), props)

\* One render of HolderChart: the series it plots, the datasets, and whether
\* the render threw.
HolderChart(series, props) == Chart(FilteredData(series, props), props)

\* the series and the intervals the chart is rendered with
MaxSeriesLen == 3
SampleTimes == {0, 60000, 150000}
SampleHolders == {1, 2, 3}
SamplePoints == {[timestamp |-> DateOf(t), holders |-> h] : t \in SampleTimes, h \in SampleHolders}
SeriesInputs == UNION {[1..n -> SamplePoints] : n \in 0..MaxSeriesLen}
\* the options of the select (578-585) a short series tells apart, and strings
\* outside them: intervalMs = 0, a number that does not parse, units that the
\* switch does not know
TimeRanges ==
    {<<"1", "m">>, <<"2", "m">>, <<"1", "h">>, <<"7", "d">>,
     <<"0", "m">>, <<"x", "m">>, <<"1", "s">>, <<"r", "a", "w">>, <<"a", "l", "l">>}

\* the options of the moving-average select (603-605), the period the page
\* uses (83, 598) and the periods the component is rendered with
MaTypes == {"none", "sma", "ema"}
DefaultMaPeriod == 20
MaxPeriod == 3
Periods == 1..MaxPeriod

DefaultSettings ==
    [timeRange |-> <<"1", "h">>, showTrendLine |-> FALSE,
     showMovingAverage |-> FALSE, maType |-> "none", maPeriod |-> DefaultMaPeriod]

\* settings props for the smoothing functions: the defaults of the page, or a
\* simple moving average over one of Periods, of the raw series or of its
\* one-minute buckets
SettingsInputs ==
    {DefaultSettings} \cup
    {[DefaultSettings EXCEPT !.showMovingAverage = TRUE, !.maType = "sma",
                             !.maPeriod = period, !.timeRange = range] :
        period \in Periods, range \in {<<"r", "a", "w">>, <<"1", "m">>}}

\* the first render
Render ==
    /\ chart = <<>>
    /\ chart' = <<HolderChart(chartData, chartSettings)>>
    /\ UNCHANGED <<chartData, chartSettings, clientVars, proxyVars>>

\* the select of the time range (566-574) and the render it causes
SetTimeRange(value) ==
    /\ chart # <<>>
    /\ value # chartSettings.timeRange
    /\ chartSettings' = [chartSettings EXCEPT !.timeRange = value]
    /\ chart' = <<HolderChart(chartData, chartSettings')>>
    /\ UNCHANGED <<chartData, clientVars, proxyVars>>

\* the select of the trend line (611-617) and the render it causes
SetShowTrendLine(value) ==
    /\ chart # <<>>
    /\ value # chartSettings.showTrendLine
    /\ chartSettings' = [chartSettings EXCEPT !.showTrendLine = value]
    /\ chart' = <<HolderChart(chartData, chartSettings')>>
    /\ UNCHANGED <<chartData, clientVars, proxyVars>>

\* the select of the moving average (591-599) and the render it causes
SetMovingAverage(value) ==
    /\ chart # <<>>
    /\ value # chartSettings.maType
    /\ chartSettings' = [chartSettings EXCEPT
                            !.maType = value,
                            !.showMovingAverage = (value # "none"),
                            !.maPeriod = IF value # "none" THEN DefaultMaPeriod
                                         ELSE chartSettings.maPeriod]
    /\ chart' = <<HolderChart(chartData, chartSettings')>>
    /\ UNCHANGED <<chartData, clientVars, proxyVars>>

ChartInit ==
    /\ chartData = <<>>
    /\ chartSettings = DefaultSettings
    /\ chart = <<>>

ChartNext ==
    \/ Render
    \/ \E value \in TimeRanges : SetTimeRange(value)
    \/ \E value \in BOOLEAN : SetShowTrendLine(value)

----------------------------------------------------------------------------
ClientInit ==
    /\ phase = "fresh"
    /\ updateFrequency = DefaultFrequency
    /\ holderData = <<>>
    /\ analytics = [peakHolders |-> 0, positiveChanges |-> 0,
                    negativeChanges |-> 0, totalChanges |-> 0]
    /\ lastChange = <<>>
    /\ currentHolders = 0
    /\ loading = TRUE
    /\ lastUpdated = <<>>
    /\ fetchInProgressRef = FALSE
    /\ timeoutRef = NoTimer
    /\ stored = <<>>
    /\ storedPeak = <<>>
    /\ documentTitle = <<>>
    /\ timers = {}
    /\ fetches = {}
    /\ now = 0
    /\ ev = NoEvent

Init == ClientInit /\ ProxyInit /\ ChartInit

Next ==
    \/ Mount
    \/ \E f \in Freqs : ChangeFrequency(f)
    \/ \E t \in timers : TimerFire(t)
    \/ \E f \in fetches, reply \in PrimaryReplies : PrimaryResponse(f, reply)
    \/ \E f \in fetches, reply \in FallbackReplies : FallbackResponse(f, reply)
    \/ Tick(TickMs)
    \/ Teardown
    \/ Reload

Spec == Init /\ [][Next]_vars

ProxySpec == Init /\ [][ProxyNext]_vars

\* ChartSpec: HolderChart rendered over every series of SeriesInputs, with the
\* time-range and trend-line controls of the page
ChartSeries ==
    /\ ClientInit /\ ProxyInit
    /\ chartData \in SeriesInputs
    /\ chartSettings = DefaultSettings
    /\ chart = <<>>

ChartSpec == ChartSeries /\ [][ChartNext]_vars

\* SmoothingSpec: HolderChart rendered over every series of SeriesInputs with
\* every settings prop of SettingsInputs, and the moving-average select
SmoothingInit ==
    /\ ClientInit /\ ProxyInit
    /\ chartData \in SeriesInputs
    /\ chartSettings \in SettingsInputs
    /\ chart = <<>>

SmoothingNext ==
    \/ Render
    \/ \E value \in MaTypes : SetMovingAverage(value)

SmoothingSpec == SmoothingInit /\ [][SmoothingNext]_vars

\* UpdaterSpec: the updater of setHolderData (292-298) applied to one new
\* sample after the other on the mounted page, from the empty series, with a
\* retention cap that lets a run of equal samples follow a different one
MaxUpdaterLen == 4

UpdaterInit ==
    /\ ProxyInit /\ ChartInit
    /\ phase = "mounted"
    /\ updateFrequency = DefaultFrequency
    /\ holderData = <<>>
    /\ analytics = [peakHolders |-> 0, positiveChanges |-> 0,
                    negativeChanges |-> 0, totalChanges |-> 0]
    /\ lastChange = <<>>
    /\ currentHolders = 0
    /\ loading = TRUE
    /\ lastUpdated = <<>>
    /\ fetchInProgressRef = FALSE
    /\ timeoutRef = NoTimer
    /\ stored = <<>>
    /\ storedPeak = <<>>
    /\ documentTitle = <<>>
    /\ timers = {}
    /\ fetches = {}
    /\ now = 0
    /\ ev = NoEvent

\* setLastUpdated and setHolderData of 286-298 for a sample with h holders
AppendSample(h) ==
    LET newDataPoint == [timestamp |-> DateOf(now), holders |-> h]
        trimmedData == SliceLast(Append(holderData, newDataPoint), MaxUpdaterLen)
        st == UpdateAnalytics(trimmedData, newDataPoint, AnalyticsState)
    IN  /\ phase = "mounted"
        /\ stored' = SaveToLocalStorage(trimmedData)
        /\ holderData' = trimmedData
        /\ SetAnalytics(st)
        /\ lastUpdated' = <<newDataPoint.timestamp>>
        /\ ev' = [Event("AppendSample", Loop) EXCEPT
                     !.path = "append", !.holders2 = 2 * h,
                     !.appended = <<newDataPoint>>, !.applied = TRUE,
                     !.point = <<newDataPoint>>,
                     !.maxAppended = Max(@, newDataPoint.holders)]
        /\ UNCHANGED <<phase, updateFrequency, fetchInProgressRef, timeoutRef,
                       documentTitle, timers, fetches, now, proxyVars, chartVars>>

UpdaterNext == \E h \in SampleHolders : AppendSample(h)

UpdaterSpec == UpdaterInit /\ [][UpdaterNext]_vars

\* LiveSpec: the running page with no teardown and no reload, every request
\* eventually answered, every due timer eventually fired, time passing.
LiveNext ==
    \/ Mount
    \/ \E f \in Freqs : ChangeFrequency(f)
    \/ \E t \in timers : TimerFire(t)
    \/ \E f \in fetches, reply \in PrimaryReplies : PrimaryResponse(f, reply)
    \/ \E f \in fetches, reply \in FallbackReplies : FallbackResponse(f, reply)
    \/ Tick(TickMs)

LiveSpec ==
    /\ Init
    /\ [][LiveNext]_vars
    /\ WF_vars(Mount)
    /\ WF_vars(\E t \in timers : TimerFire(t))
    /\ WF_vars(\E f \in fetches, reply \in PrimaryReplies : PrimaryResponse(f, reply))
    /\ WF_vars(\E f \in fetches, reply \in FallbackReplies : FallbackResponse(f, reply))
    /\ WF_vars(Tick(TickMs))

----------------------------------------------------------------------------
\* Properties

InFlight == Cardinality(fetches)
ScansInFlight == Cardinality({r \in ReqIds : reqs[r].pc = "scan"})
Interval(freq) == freq * 1000
FetchStarted == ev.op \in {"Mount", "ChangeFrequency", "TimerFire"} /\ ev.issued >= 1

\* C1: at most one execution of fetchData is in flight in every reachable
\* state, and no startFetchCycle call made while one is in flight issues a
\* network call (the two calls of the mount effects included).
C1_SingleFlight ==
    /\ InFlight <= 1
    /\ ev.busyIssued = 0
    /\ ev.op \in {"Mount", "ChangeFrequency", "TimerFire"} => ev.issued <= 1
    /\ ev.wasBusy /\ ev.starts > 0 => ev.issued = 0

\* the two start requests of the mount effects issued one network call
C1_Witness ==
    ev.op = "Mount" /\ ev.starts = 2 /\ ev.issued = 1 /\ InFlight = 1

\* C2: at most one getProgramAccounts scan is in flight at any time.
C2_SingleScan == ScansInFlight <= 1

\* C3: every completed cycle (append, skipped append, failure of both
\* sources) has armed a timer and cleared the in-flight flag, and a fetch
\* starts again and again.
C3_NeverStops ==
    /\ [](ev.completed => ev.armed /\ timers # {} /\ ~fetchInProgressRef)
    /\ []<>FetchStarted

\* a cycle in which both sources failed has armed its timer
C3_Witness == ev.completed /\ ev.path = "fail" /\ ev.armed /\ timers # {}

\* C4: both series hold at most RetentionCap samples, and an append to a full
\* series drops exactly the oldest sample and puts the new one last.
C4_RetentionCap ==
    /\ [](Len(holderData) <= RetentionCap /\ Len(stored) <= RetentionCap)
    /\ [][ev'.applied /\ Len(holderData) = RetentionCap
            => /\ stored' = SaveToLocalStorage(Append(Tail(holderData), ev'.appended[1]))
               /\ phase = "mounted" => holderData' = Append(Tail(holderData), ev'.appended[1])]_vars

\* an append was made to a full series
C4_Witness ==
    ev.applied /\ ev.lenBefore = RetentionCap /\ phase = "mounted"
    /\ Len(holderData) = RetentionCap

\* C5: the persisted peak never decreases and is written only with a new
\* sample that exceeds it; the displayed peak never decreases while the page
\* lives.
C5_PeakMonotonic ==
    [][/\ ParsePeak(storedPeak') >= ParsePeak(storedPeak)
       /\ phase' # "fresh" => analytics'.peakHolders >= analytics.peakHolders
       /\ storedPeak' # storedPeak
            => /\ ev'.point # <<>>
               /\ ev'.point[1].holders > ParsePeak(storedPeak)
               /\ storedPeak' = <<ev'.point[1].holders>>]_vars

\* a sample below the peak was appended
C5_Witness ==
    /\ ev.applied /\ phase = "mounted"
    /\ ev.appended[1].holders < ParsePeak(storedPeak)
    /\ analytics.peakHolders = ParsePeak(storedPeak)

\* C6: a sample appended in a cycle whose primary attempt failed has the
\* fallback's value and is flagged in the title; a sample from the primary
\* source is not flagged.
C6_FallbackFlag ==
    ev.path = "append" =>
        IF ev.primaryOk
        THEN ~documentTitle[1].helius
        ELSE /\ documentTitle[1].helius
             /\ ev.supply > 0
             /\ ev.appended[1].holders = ev.supply
             /\ ev.applied /\ phase = "mounted" => Last(holderData).holders = ev.supply

\* a sample from the fallback was appended
C6_Witness ==
    /\ ev.path = "append" /\ ~ev.primaryOk /\ ev.applied /\ phase = "mounted"
    /\ documentTitle[1].helius

\* C7: one request makes at most two upstream scans.
C7_BoundedRetry == \A r \in ReqIds : reqs[r].scans <= 2

\* C8: a change of the interval while a timer is pending and no fetch is in
\* flight removes that timer and starts exactly one fetch.
C8_IntervalChange ==
    ev.op = "ChangeFrequency" /\ ev.wasPending # {} /\ ~ev.wasBusy
        => timers = {} /\ ev.issued = 1 /\ InFlight = 1

C8_Witness ==
    ev.op = "ChangeFrequency" /\ ev.wasPending # {} /\ ~ev.wasBusy /\ InFlight = 1

\* C9: at most one timer is pending, none while a fetch is in flight, and a
\* timer is armed only when none is pending.
C9_TimerDiscipline ==
    /\ Cardinality(timers) <= 1
    /\ fetches # {} => timers = {}
    /\ ev.armed => ev.wasPending = {}

\* a cycle completed and armed the only pending timer
C9_Witness == ev.completed /\ ev.armed /\ Cardinality(timers) = 1 /\ fetches = {}

C11_Persisted ==
    /\ phase = "mounted"
        => /\ stored = SaveToLocalStorage(holderData)
           /\ LoadFromLocalStorage(stored) = holderData
    /\ phase = "mounted" /\ ev.applied
        => /\ Last(holderData) = ev.appended[1]
           /\ Last(stored).timestamp = ToISOString(ev.appended[1].timestamp)
           /\ Last(stored).holders = ev.appended[1].holders

\* an append to a full series has completed and both series hold the same
\* samples
C11_Witness ==
    /\ phase = "mounted" /\ ev.applied /\ ev.lenBefore = RetentionCap
    /\ Len(stored) = RetentionCap
    /\ LoadFromLocalStorage(stored) = holderData

\* C12: the persisted series is loaded into the in-memory series by the
\* first run of the setup effect only.
C12_RehydratedOnce == ev.rehydrated => ev.op = "Mount"

\* C13: a cycle that ends with holders <= 0 or with both sources failed
\* leaves the two series, the persisted peak, the analytics and the
\* last-updated time as they were; between two states of the mounted page
\* each series is unchanged or is a suffix of the previous one followed by
\* exactly one new sample.
C13_Frame ==
    [][/\ ev'.completed /\ (ev'.path = "fail" \/ ev'.holders2 <= 0)
            => UNCHANGED <<holderData, stored, storedPeak, analytics,
                           lastChange, currentHolders, lastUpdated>>
       /\ phase = "mounted" /\ phase' = "mounted"
            => /\ \/ holderData' = holderData
                  \/ /\ ev'.applied
                     /\ \E k \in 0..Len(holderData) :
                          holderData' = Append(SubSeq(holderData, k + 1, Len(holderData)),
                                               ev'.appended[1])
               /\ \/ stored' = stored
                  \/ /\ ev'.applied
                     /\ \E k \in 0..Len(stored) :
                          stored' = Append(SubSeq(stored, k + 1, Len(stored)),
                                           SaveToLocalStorage(ev'.appended)[1])]_vars

\* a cycle ended with holders = 0 while the series held samples
C13_Witness ==
    /\ ev.completed /\ ev.path = "skip" /\ ev.holders2 = 0
    /\ phase = "mounted" /\ Len(holderData) > 0 /\ lastUpdated # <<>>

\* C18: the series is ordered by timestamp ascending, whichever source
\* stamped its samples.
C18_SeriesOrdered == Ordered(holderData)

\* C19: a GET that arrives less than 10 seconds after the cached result was
\* stored is answered with the cached count and starts no scan; one that
\* arrives 10 seconds or more after it while no scan is in flight starts a
\* scan.
C19_CacheTTL ==
    pev.op = "Arrive" /\ pev.cache # <<>> =>
        LET req == reqs[pev.r] IN
        IF pev.cache[1].age < 10 * 1000
        THEN /\ req.pc = "done" /\ req.status = 200
             /\ req.holders = pev.cache[1].holders
             /\ req.scans = 0
             /\ fetchInProgress = pev.busy
             /\ lastResult = pev.cache
        ELSE ~pev.busy => req.pc = "scan" /\ req.scans = 1 /\ fetchInProgress

\* a GET arrived when the cached result was 10 seconds old and started a scan
C19_Witness ==
    /\ pev.op = "Arrive" /\ pev.cache # <<>> /\ pev.cache[1].age >= 10 * 1000
    /\ ~pev.busy /\ reqs[pev.r].pc = "scan"

\* C20: a GET is answered 500 only by a failed scan that finds no cached
\* result; a failed scan that finds one is answered 200 with its count; a
\* successful scan stores its count with the completion time and answers it.
C20_ErrorEnvelope ==
    /\ pev.r # 0 /\ reqs[pev.r].status = 500
        => pev.op = "ScanFails" /\ pev.cache = <<>> /\ lastResult = <<>>
    /\ pev.op = "ScanFails" /\ pev.cache # <<>>
        => /\ reqs[pev.r].pc = "done" /\ reqs[pev.r].status = 200
           /\ reqs[pev.r].holders = pev.cache[1].holders
           /\ lastResult = pev.cache
    /\ pev.op = "ScanSucceeds"
        => /\ lastResult = <<[age |-> 0, holders |-> pev.count]>>
           /\ reqs[pev.r].pc = "done" /\ reqs[pev.r].status = 200
           /\ reqs[pev.r].holders = pev.count

\* a scan failed while an expired result was cached, and was answered with it
C20_Witness ==
    /\ pev.op = "ScanFails" /\ pev.cache # <<>>
    /\ pev.cache[1].age >= 10 * 1000
    /\ reqs[pev.r].status = 200 /\ reqs[pev.r].holders = pev.cache[1].holders

\* The chart was rendered over a non-empty series with an interval whose
\* intervalMs is a positive number.
Bucketed ==
    /\ chart # <<>> /\ Len(chartData) > 0
    /\ chartSettings.timeRange \notin {<<"a", "l", "l">>, <<"r", "a", "w">>}
    /\ IntervalMs(chartSettings.timeRange) # <<>>
    /\ IsFinite(IntervalMs(chartSettings.timeRange)[1])
    /\ IntervalMs(chartSettings.timeRange)[1].num > 0
BucketMs == IntervalMs(chartSettings.timeRange)[1].num
BucketStart(t) == (t \div BucketMs) * BucketMs
BucketEnd(t) == ((t + BucketMs - 1) \div BucketMs) * BucketMs
StartTime == BucketStart(chartData[1].timestamp.time)
EndTime == BucketEnd(Last(chartData).timestamp.time)
\* the output is exactly the boundaries startTime, startTime + intervalMs, ...,
\* endTime, each once, ascending
AllBoundariesOnce(output) ==
    /\ Len(output) = (EndTime - StartTime) \div BucketMs + 1
    /\ \A k \in 1..Len(output) :
          output[k].timestamp = DateOf(StartTime + (k - 1) * BucketMs)

Assigned(output, k) ==
    \E i \in 1..Len(chartData) :
        DateOf(BucketStart(chartData[i].timestamp.time)) = output[k].timestamp

\* C15: in the output of aggregateData, read in chronological order, a bucket
\* no sample was assigned to has the value of the bucket before it, and a
\* first bucket without a sample has the first raw sample's value.
C15_ForwardFill ==
    Bucketed =>
        LET output == chart[1].filteredData IN
        /\ \A k \in 2..Len(output) :
              ~Assigned(output, k) => output[k].holders = output[k - 1].holders
        /\ Len(output) > 0 /\ ~Assigned(output, 1)
              => output[1].holders = chartData[1].holders

\* a bucket between two samples is filled with a value that is not the first
\* raw sample's
C15_Witness ==
    /\ Bucketed
    /\ \E k \in 2..(Len(chart[1].filteredData) - 1) :
          /\ ~Assigned(chart[1].filteredData, k)
          /\ chart[1].filteredData[k].holders # chartData[1].holders
          /\ chart[1].filteredData[k].holders = chart[1].filteredData[k - 1].holders

\* the interval is degenerate: its unit is not m, h or d, or its number is
\* not a number or makes intervalMs zero
Degenerate(interval) ==
    \/ LastChar(interval) \notin {"m", "h", "d"}
    \/ ParseInt(interval).nan
    \/ ParseInt(interval).num = 0

\* C16: with a degenerate interval aggregateData returns the input series
\* unchanged and produces no invalid timestamp.
C16_DegenerateIsRaw ==
    chart # <<>> /\ Degenerate(chartSettings.timeRange) =>
        /\ chart[1].filteredData = chartData
        /\ \A k \in 1..Len(chart[1].filteredData) :
              chart[1].filteredData[k].timestamp.valid

\* C17: with the trend line switched on and fewer than 2 points to plot, the
\* render does not fail and adds no trend-line dataset (so no NaN endpoint).
C17_TrendGuard ==
    chart # <<>> /\ chartSettings.showTrendLine /\ Len(chart[1].filteredData) < 2 =>
        /\ ~chart[1].threw
        /\ \A d \in 1..Len(chart[1].datasets) :
              chart[1].datasets[d].label # "Trend Line"

----------------------------------------------------------------------------
\* Source selection in a poll cycle (page.tsx 235-298)

\* the failures of the primary attempt that are listed: a network error, a
\* status that is not 2xx, success false, holders <= 0
ListedFailure(reply) ==
    \/ reply.kind \in {"neterr", "status"}
    \/ reply.kind = "json" /\ (~reply.success \/ reply.holders2 <= 0)

\* every way the try block of 235-255 is left by a throw
PrimaryFailed(reply) ==
    \/ reply.kind # "json"
    \/ ~reply.success
    \/ ~(reply.holders2 > 0)

\* the step called the fallback source for the execution f
FallbackCalled(f) ==
    /\ ev'.issued = 1
    /\ \E g \in fetches' : g.id = f.id /\ g.stage = "fallback"

\* the step ended the execution f with an append taken from the primary reply
PrimaryAppended(f, reply) ==
    /\ ev'.completed /\ ev'.primaryOk /\ ev'.issued = 0
    /\ \A g \in fetches' : g.id # f.id
    /\ ev'.appended = <<[timestamp |-> PrimaryTimestamp(reply),
                         holders |-> Floor2(reply.holders2)]>>
    /\ phase = "mounted" => Last(holderData') = ev'.appended[1]

SourceSelection(Failure(_)) ==
    \A f \in fetches : \A reply \in PrimaryReplies :
        PrimaryResponse(f, reply) =>
            /\ FallbackCalled(f) <=> Failure(reply)
            /\ ~Failure(reply) => PrimaryAppended(f, reply)

\* C21 as stated: the fallback source is called if and only if the primary
\* attempt ended in a network error, a non-2xx status, success false or
\* holders <= 0; otherwise the appended sample has floor(primary holders) and
\* the primary's timestamp.
C21_Original == [][SourceSelection(ListedFailure)]_vars

\* C21: the fallback source is called if and only if the primary attempt
\* failed, where failure is a network error, a non-2xx status, a body that is
\* not JSON, success false, or holders not greater than 0; when the primary
\* succeeds the fallback is never called and the appended sample has
\* floor(primary holders) and the primary's timestamp.
C21_SourceSelection == [][SourceSelection(PrimaryFailed)]_vars

C21_Witness ==
    /\ phase = "mounted"
    /\ ev.op = "PrimaryResponse" /\ ev.completed /\ ev.primaryOk
    /\ ev.holders2 = 3
    /\ ev.appended # <<>> /\ ev.appended[1].holders = 1
    /\ Last(holderData) = ev.appended[1]

----------------------------------------------------------------------------
\* Aggregation identity (route.ts 234-235)

\* C22: for any series aggregateData(series, "raw") returns the input
\* unchanged, for the empty series aggregateData returns the empty series for
\* every interval, and a render leaves the samples of the input series as
\* they were.
C22_Identity ==
    /\ [](chart # <<>> =>
            /\ chartSettings.timeRange = <<"r", "a", "w">> =>
                    chart[1].filteredData = chartData
            /\ chartData = <<>> => chart[1].filteredData = <<>>)
    /\ [][chartData' = chartData]_vars

C22_Witness ==
    /\ chart # <<>>
    /\ chartSettings.timeRange = <<"r", "a", "w">>
    /\ Len(chartData) = MaxSeriesLen /\ ~Ordered(chartData)
    /\ chart[1].filteredData = chartData

----------------------------------------------------------------------------
\* Bucket value (route.ts 265-286)

\* the samples of the series whose bucket start is the k-th timestamp of the
\* output
SamplesIn(output, k) ==
    {i \in 1..Len(chartData) :
        DateOf(BucketStart(chartData[i].timestamp.time)) = output[k].timestamp}

RECURSIVE SumHolders(_)
SumHolders(S) ==
    IF S = {} THEN 0
    ELSE LET i == CHOOSE j \in S : TRUE
         IN  chartData[i].holders + SumHolders(S \ {i})

\* the integer nearest to sum / n, halves upward
RoundedMean(sum, n) == (2 * sum + n) \div (2 * n)

\* C23: for any non-empty series and interval with intervalMs > 0, every
\* sample is assigned to exactly one bucket of the output, the one that
\* starts at floor(timestamp / intervalMs) * intervalMs, and every bucket
\* with at least one sample has the value round(mean of the holders of
\* exactly the samples assigned to it), halves rounded up.
C23_BucketValue ==
    Bucketed =>
        LET output == chart[1].filteredData IN
        /\ \A i \in 1..Len(chartData) :
              Cardinality({k \in 1..Len(output) : i \in SamplesIn(output, k)}) = 1
        /\ \A k \in 1..Len(output) :
              SamplesIn(output, k) # {} =>
                  output[k].holders =
                      RoundedMean(SumHolders(SamplesIn(output, k)),
                                  Cardinality(SamplesIn(output, k)))

\* a bucket whose samples have a mean that ends in one half
C23_Witness ==
    /\ Bucketed
    /\ \E k \in 1..Len(chart[1].filteredData) :
          LET S == SamplesIn(chart[1].filteredData, k)
              n == Cardinality(S)
          IN  /\ n = 2
              /\ SumHolders(S) % 2 = 1
              /\ chart[1].filteredData[k].holders = SumHolders(S) \div 2 + 1

----------------------------------------------------------------------------
\* The simple moving average (route.ts 164-175, 309-313, 346-352)

\* the moving-average dataset of the render
AverageDataset ==
    chart[1].datasets[CHOOSE d \in 1..Len(chart[1].datasets) :
                         chart[1].datasets[d].label = "SMA"]

SmaRendered ==
    /\ chart # <<>> /\ ~chart[1].threw
    /\ chartSettings.showMovingAverage /\ chartSettings.maType = "sma"
    /\ chartSettings.maPeriod >= 1

\* the sum of the holders of the plotted points lo..hi
RECURSIVE WindowSum(_, _)
WindowSum(lo, hi) ==
    IF lo > hi THEN 0 ELSE chart[1].filteredData[hi].holders + WindowSum(lo, hi - 1)

\* C24: for every value sequence and every period >= 1 calculateSMA returns a
\* sequence as long as its input, aligned by index, that is not-a-number at
\* the 0-based positions i < period - 1 and the mean of values[i-period+1..i]
\* at the others; a period longer than the input makes every position
\* not-a-number.
C24_SMA ==
    SmaRendered =>
        LET points == AverageDataset.points
            period == chartSettings.maPeriod
            n == Len(chart[1].filteredData)
        IN  /\ Len(points) = n
            /\ \A j \in 1..n :
                  /\ points[j].x = chart[1].filteredData[j].timestamp
                  /\ IF j - 1 < period - 1
                     THEN points[j].y.nan
                     ELSE /\ IsFinite(points[j].y)
                          /\ points[j].y.num * period
                                = WindowSum(j - period + 1, j) * points[j].y.den
            /\ period > n => \A j \in 1..n : points[j].y.nan

\* a window of two points whose mean is not an integer, after one position
\* that has no full window
C24_Witness ==
    /\ SmaRendered
    /\ chartSettings.maPeriod = 2
    /\ Len(chart[1].filteredData) >= 3
    /\ AverageDataset.points[1].y.nan
    /\ \E j \in 2..Len(chart[1].filteredData) : AverageDataset.points[j].y.den = 2

----------------------------------------------------------------------------
\* The trend line (route.ts 192-209, 316, 365-371)

\* the holders of the series are a + b * i at the 0-based index i
LinearIn(series, a, b) ==
    \A i \in 1..Len(series) : series[i].holders = a + b * (i - 1)

TrendDataset ==
    chart[1].datasets[CHOOSE d \in 1..Len(chart[1].datasets) :
                         chart[1].datasets[d].label = "Trend Line"]

TrendRendered ==
    /\ chart # <<>> /\ ~chart[1].threw
    /\ chartSettings.showTrendLine
    /\ Len(chart[1].filteredData) >= 2

\* C25: for every series of n >= 2 points whose holders are a + b * i at
\* index i (integers a, b), calculateTrendLine returns start = a and
\* end = a + b * (n - 1), whatever the timestamps of the points.
C25_TrendLinear ==
    TrendRendered =>
        LET series == chart[1].filteredData
            a == series[1].holders
            b == series[2].holders - series[1].holders
        IN  LinearIn(series, a, b) =>
                /\ TrendDataset.points[1].y = Num(a)
                /\ TrendDataset.points[2].y = Num(a + b * (Len(series) - 1))

\* three points on a line that is not flat, unevenly spaced in time
C25_Witness ==
    /\ TrendRendered
    /\ Len(chart[1].filteredData) = 3
    /\ LET series == chart[1].filteredData IN
       /\ series[2].holders # series[1].holders
       /\ LinearIn(series, series[1].holders, series[2].holders - series[1].holders)
       /\ series[2].timestamp.time - series[1].timestamp.time
            # series[3].timestamp.time - series[2].timestamp.time
       /\ TrendDataset.points[2].y = Num(series[3].holders)

----------------------------------------------------------------------------
\* The interval after a change, and the loop after teardown (page.tsx
\* 215-217, 219-333, 346-359)

\* C26: a changed poll interval takes effect whatever the state of the loop
\* at the change: every fetch that starts runs with the interval selected at
\* that moment, so the timer it arms is computed from the new interval and
\* the loop does not go on rescheduling itself with the old one.
C26_IntervalTakesEffect ==
    FetchStarted => \A f \in fetches : f.freq = updateFrequency

\* C27: after the teardown cleanup, with no later setup, no timer is pending
\* and no fetch starts, also when a fetch was in flight at the teardown.
C27_TeardownStops ==
    phase = "torn" => timers = {} /\ ~FetchStarted

----------------------------------------------------------------------------
\* The staleness of the counts the route returns (route.ts 16-31, 74-79)

\* the step answered a request with a count
AnsweredCount ==
    /\ pev.r # 0
    /\ reqs[pev.r].pc = "done" /\ reqs[pev.r].status = 200

\* C28: as long as no upstream scan has failed, every count the route returns
\* was stored in the cache less than 10 seconds before, or was produced by a
\* scan that completed during that request; so a request that found another
\* scan in flight never returns a cached value older than 10 seconds.
C28_StalenessBound ==
    AnsweredCount /\ ~pev.failed =>
        \/ /\ pev.op = "ScanSucceeds"
           /\ reqs[pev.r].holders = pev.count
        \/ /\ pev.cache # <<>>
           /\ pev.cache[1].age < CACHE_DURATION
           /\ reqs[pev.r].holders = pev.cache[1].holders

----------------------------------------------------------------------------
\* The analytics of the series (page.tsx 121-157)

\* the samples of the series whose holders differ from the newest sample's
Differing(series) ==
    {i \in 1..Len(series) : series[i].holders # Last(series).holders}

\* the later sample of the most recent adjacent pair with differing holders
LastStep(series) ==
    CHOOSE k \in 2..Len(series) :
        /\ series[k].holders # series[k - 1].holders
        /\ \A j \in (k + 1)..Len(series) : series[j].holders = series[j - 1].holders

\* C29: after an append, if the retained series has a sample whose holders
\* differ from the newest sample's, lastChange.value is the newest holders
\* minus the holders of the latest such sample, which is the difference
\* across the most recent adjacent pair with differing holders; when no
\* retained sample differs lastChange is left as it was; lastChange.value is
\* never zero.
C29_LastChange ==
    /\ [][ev'.applied /\ phase' = "mounted" =>
            LET series == holderData'
                latest == CHOOSE i \in Differing(series) :
                              \A j \in Differing(series) : j <= i
            IN  IF Differing(series) # {}
                THEN /\ lastChange' = <<Last(series).holders - series[latest].holders>>
                     /\ lastChange'[1] = series[LastStep(series)].holders
                                            - series[LastStep(series) - 1].holders
                ELSE lastChange' = lastChange]_vars
    /\ [](lastChange # <<>> => lastChange[1] # 0)

\* the newest sample repeats the one before it, and the sample before those
\* differs: the scan passes over an equal sample
C29_Witness ==
    /\ ev.applied /\ Len(holderData) >= 3
    /\ holderData[3].holders = holderData[2].holders
    /\ holderData[2].holders # holderData[1].holders
    /\ Len(holderData) = 3
    /\ lastChange = <<holderData[3].holders - holderData[1].holders>>

\* the adjacent pairs of the series whose holders increase, decrease, differ
Rising(series) ==
    {i \in 1..(Len(series) - 1) : series[i + 1].holders > series[i].holders}
Falling(series) ==
    {i \in 1..(Len(series) - 1) : series[i + 1].holders < series[i].holders}
Changing(series) ==
    {i \in 1..(Len(series) - 1) : series[i + 1].holders # series[i].holders}

CountsOfSeries ==
    /\ ev.applied /\ phase = "mounted" =>
          /\ analytics.positiveChanges = Cardinality(Rising(holderData))
          /\ analytics.negativeChanges = Cardinality(Falling(holderData))
          /\ analytics.totalChanges = Cardinality(Changing(holderData))
    /\ analytics.totalChanges = analytics.positiveChanges + analytics.negativeChanges

\* C30 as stated: after every append the three counts are those of the
\* adjacent pairs of the whole retained series, and in every reachable state
\* totalChanges = positiveChanges + negativeChanges <= length - 1.
C30_Original ==
    /\ CountsOfSeries
    /\ analytics.totalChanges <= Len(holderData) - 1

\* C30 as amended: the same, with the bound length - 1 for a series that is
\* not empty and 0 for the empty series.
C30_ChangeCounts ==
    /\ CountsOfSeries
    /\ analytics.totalChanges <= Max(Len(holderData) - 1, 0)

\* a rise, a fall and a pair that does not change
C30_Witness ==
    /\ ev.applied /\ Len(holderData) = 4
    /\ analytics.positiveChanges = 1 /\ analytics.negativeChanges = 1
    /\ analytics.totalChanges = 2

----------------------------------------------------------------------------
\* The persisted peak (page.tsx 110-119, 292-298)

\* C31: starting from empty storage, after any sequence of poll cycles,
\* interval changes and rehydrations the persisted peakHolders is at least
\* the holders of every sample of the series, in memory and persisted, and
\* equals the largest holders ever appended, evicted samples included.
C31_PeakDominates ==
    /\ \A i \in 1..Len(holderData) : holderData[i].holders <= ParsePeak(storedPeak)
    /\ \A i \in 1..Len(stored) : stored[i].holders <= ParsePeak(storedPeak)
    /\ ParsePeak(storedPeak) = ev.maxAppended

\* the sample that holds the peak has been evicted, and the series has been
\* rehydrated since
C31_Witness ==
    /\ phase = "mounted" /\ ev.rehydrated
    /\ Len(holderData) = RetentionCap
    /\ storedPeak # <<>>
    /\ \A i \in 1..Len(holderData) : holderData[i].holders < storedPeak[1]
    /\ storedPeak[1] = ev.maxAppended

----------------------------------------------------------------------------
\* The range of the aggregated values and the number of buckets
\* (route.ts 255-288)

MinHolders == CHOOSE h \in {chartData[i].holders : i \in 1..Len(chartData)} :
                  \A i \in 1..Len(chartData) : h <= chartData[i].holders
MaxHolders == CHOOSE h \in {chartData[i].holders : i \in 1..Len(chartData)} :
                  \A i \in 1..Len(chartData) : h >= chartData[i].holders
\* every value of the output lies between the least and the largest holders
\* of the series
ValuesInRange(output) ==
    \A k \in 1..Len(output) :
        MinHolders <= output[k].holders /\ output[k].holders <= MaxHolders
\* the boundaries the loop of 260-263 creates, and the bucket starts of the
\* samples (266-272)
LoopBoundaries ==
    {StartTime + j * BucketMs : j \in 0..((EndTime - StartTime) \div BucketMs)}
SampleBoundaries ==
    {BucketStart(chartData[i].timestamp.time) : i \in 1..Len(chartData)}
BucketCount == (EndTime - StartTime) \div BucketMs + 1

====
